---- MODULE Spec2Model ----
(***************************************************************************)
(* The document.cookie patch of the driver (createDocumentCookiePatch in   *)
(* packages/driver/src/cy/commands/querying/querying.ts): a synchronous    *)
(* local copy of the cookie line (documentCookieValue), optimistic writes, *)
(* a 250 ms polling interval against the automation cookie store, and the  *)
(* event handlers that merge, clear or reset the local copy.               *)
(*                                                                         *)
(* A JavaScript string is a sequence of one-character strings, so that     *)
(* split, trim and join are computed as the code computes them.            *)
(* An optional value (undefined or a value) is a sequence of length 0 or 1.*)
(***************************************************************************)
EXTENDS Naturals, Sequences, FiniteSets

VARIABLES
  documentCookieValue,  \* let documentCookieValue (line 458)
  patched,              \* Object.defineProperty has replaced document.cookie
  intervalActive,       \* the setInterval timer intervalId is still scheduled
  unloadListener,       \* window has the 'unload' listener onUnload
  handlers,             \* event names with a handler registered by Cypress.on / specBridgeCommunicator.on
  getInFlight,          \* number of 'get:cookies' automation calls awaiting settlement
  setInFlight,          \* 'set:cookie' automation calls awaiting settlement
  jar,                  \* the browser's cookies for the domain (the automation side)
  crossOriginCookies,   \* Cypress.state('crossOriginCookies'): <<>> or <<cookies>>
  received,             \* number of 'cross:origin:cookies:received' messages sent toPrimary
  uncaught,             \* an exception or rejection escaped a handler
  lastOp,               \* the operation of the last step, with the accessor's return value
  fn                    \* arguments and results of the pure helpers (second specification)

vars == <<documentCookieValue, patched, intervalActive, unloadListener, handlers,
          getInFlight, setInFlight, jar, crossOriginCookies, received, uncaught,
          lastOp, fn>>

shimVars == <<documentCookieValue, patched, intervalActive, unloadListener, handlers,
              getInFlight, setInFlight, jar, crossOriginCookies, received, uncaught,
              lastOp>>

----------------------------------------------------------------------------
(* Bounds *)

MaxEntries == 2      \* a step is taken only if the resulting cookie line has at most this many entries
MaxGetInFlight == 2  \* at most this many 'get:cookies' calls awaiting settlement
MaxSetInFlight == 1  \* at most this many 'set:cookie' calls awaiting settlement
MaxPush == 2         \* at most this many 'cross:origin:cookies' events

----------------------------------------------------------------------------
(* Strings *)

A == <<"a">>
B == <<"b">>
V1 == <<"1">>
V2 == <<"2">>
EmptyString == <<>>
ValueOf == <<"v", "a", "l", "u", "e", "O", "f">>

Cookie(n, v) == [name |-> n, value |-> v]

\* String.prototype.split(sep) for a one-character separator
RECURSIVE split(_, _)
split(s, sep) ==
  IF \A i \in 1..Len(s) : s[i] # sep
  THEN <<s>>
  ELSE LET k == CHOOSE i \in 1..Len(s) :
                  s[i] = sep /\ \A j \in 1..(i - 1) : s[j] # sep
       IN  <<SubSeq(s, 1, k - 1)>> \o split(SubSeq(s, k + 1, Len(s)), sep)

\* String.prototype.trim()
RECURSIVE trim(_)
trim(s) ==
  IF s = <<>> THEN s
  ELSE IF Head(s) = " " THEN trim(Tail(s))
  ELSE IF s[Len(s)] = " " THEN trim(SubSeq(s, 1, Len(s) - 1))
  ELSE s

\* Array.prototype.join(sep)
RECURSIVE join(_, _)
join(strs, sep) ==
  IF strs = <<>> THEN <<>>
  ELSE IF Len(strs) = 1 THEN strs[1]
  ELSE strs[1] \o sep \o join(Tail(strs), sep)

----------------------------------------------------------------------------
(* parseCookieString, stringifyCookies, mergeCookies, clearCookie *)

\* const [name, value] = segment.split('='); value.trim() throws a TypeError
\* when the segment has no '=' (value is undefined)
parseCookieStringThrows(cookieString) ==
  /\ trim(cookieString) # <<>>
  /\ \E i \in 1..Len(split(cookieString, ";")) :
       Len(split(split(cookieString, ";")[i], "=")) < 2

parseCookieString(cookieString) ==
  IF trim(cookieString) = <<>> THEN <<>>
  ELSE LET segs == split(cookieString, ";")
       IN  [i \in 1..Len(segs) |->
             LET parts == split(segs[i], "=")
             IN  Cookie(trim(parts[1]), trim(parts[2]))]

stringifyCookies(cookies) ==
  join([i \in 1..Len(cookies) |-> cookies[i].name \o <<"=">> \o cookies[i].value],
       <<";", " ">>)

\* nameIndex['__proto__'] = <string> stores nothing: the key still reads as
\* Object.prototype
ProtoKey == <<"_", "_", "p", "r", "o", "t", "o", "_", "_">>

\* property names every object literal {} inherits from Object.prototype
ObjectPrototypeKeys ==
  { ValueOf,
    <<"t", "o", "S", "t", "r", "i", "n", "g">>,
    <<"c", "o", "n", "s", "t", "r", "u", "c", "t", "o", "r">>,
    ProtoKey }

\* the truthiness of newCookieNameIndex[name]: the value the last cookie of
\* that name stored (an empty string is falsy), else what {} inherits
newCookieNameIndexTruthy(newCookies, name) ==
  LET own == {i \in 1..Len(newCookies) : newCookies[i].name = name}
  IN  IF own # {} /\ name # ProtoKey
      THEN LET last == CHOOSE i \in own : \A j \in own : j <= i
           IN  newCookies[last].value # <<>>
      ELSE name \in ObjectPrototypeKeys

mergeCookies(cookieValue, newCookies) ==
  LET existingCookies == parseCookieString(cookieValue)
      filteredExistingCookies ==
        SelectSeq(existingCookies,
                  LAMBDA cookie : ~newCookieNameIndexTruthy(newCookies, cookie.name))
  IN  stringifyCookies(filteredExistingCookies \o newCookies)

\* clearCookie with the filter inverted (cookie.name === name)
clearCookieKeepsNamed(cookieValue, name) ==
  LET cookies == parseCookieString(cookieValue)
      filteredCookies == SelectSeq(cookies, LAMBDA cookie : cookie.name = name)
  IN  stringifyCookies(filteredCookies)

clearCookie(cookieValue, name) ==
  LET cookies == parseCookieString(cookieValue)
      filteredCookies == SelectSeq(cookies, LAMBDA cookie : cookie.name # name)
  IN  stringifyCookies(filteredCookies)

----------------------------------------------------------------------------
(* Inputs *)

HostLines == { EmptyString, stringifyCookies(<<Cookie(A, V1)>>) }          \* document.cookie at creation
InitialCookies == { <<>>, <<Cookie(B, V2)>> }                               \* the cookies argument
ToughCookies == { [key |-> B, value |-> V1], [key |-> A, value |-> EmptyString] }
SetterInputs == { <<>> } \cup { <<c>> : c \in ToughCookies }                \* Cypress.Cookies.parse(newValue): undefined or a cookie
PushedCookies == { <<Cookie(B, V1)>>, <<Cookie(A, V1), Cookie(A, V1)>> }    \* payloads of 'cross:origin:cookies'
SetCookieEvents == { Cookie(B, V2) }                                        \* payloads of 'set:cookie'
ClearNames == { A, B }                                                      \* payloads of 'clear:cookie'
JarContents == { <<>>, <<Cookie(A, V1)>>, <<Cookie(A, V1), Cookie(A, EmptyString)>> } \* what 'get:cookies' can return

EventNames == { "window:before:load", "cross:origin:cookies", "test:before:run",
                "set:cookie", "clear:cookie", "clear:cookies" }

EntryCount(line) == Len(parseCookieString(line))

Op(name, arg, ret) == [name |-> name, arg |-> arg, ret |-> ret]

RemoveAt(seq, i) == SubSeq(seq, 1, i - 1) \o SubSeq(seq, i + 1, Len(seq))

----------------------------------------------------------------------------
(* createDocumentCookiePatch *)

Init ==
  /\ \E line \in HostLines, cookies \in InitialCookies :
       /\ ~parseCookieStringThrows(line)
       /\ documentCookieValue = mergeCookies(line, cookies)
  /\ patched = FALSE
  /\ intervalActive = TRUE
  /\ unloadListener = TRUE
  /\ handlers = EventNames
  /\ getInFlight = 0
  /\ setInFlight = <<>>
  /\ jar \in JarContents
  /\ crossOriginCookies = <<>>
  /\ received = 0
  /\ uncaught = FALSE
  /\ lastOp = Op("create", <<>>, <<>>)
  /\ fn = <<>>

\* Cypress.on('window:before:load', patch)
Patch ==
  /\ "window:before:load" \in handlers
  /\ patched' = TRUE
  /\ lastOp' = Op("patch", <<>>, <<>>)
  /\ UNCHANGED <<documentCookieValue, intervalActive, unloadListener, handlers,
                 getInFlight, setInFlight, jar, crossOriginCookies, received,
                 uncaught, fn>>

\* a getter that also asks the automation side for the cookies
GetRefreshes ==
  /\ patched
  /\ getInFlight < MaxGetInFlight
  /\ getInFlight' = getInFlight + 1
  /\ lastOp' = Op("get", <<>>, <<documentCookieValue>>)
  /\ UNCHANGED <<documentCookieValue, patched, intervalActive, unloadListener,
                 handlers, setInFlight, jar, crossOriginCookies, received,
                 uncaught, fn>>

\* get () { return documentCookieValue }
Get ==
  /\ patched
  /\ lastOp' = Op("get", <<>>, <<documentCookieValue>>)
  /\ UNCHANGED <<documentCookieValue, patched, intervalActive, unloadListener,
                 handlers, getInFlight, setInFlight, jar, crossOriginCookies,
                 received, uncaught, fn>>

\* SetParsed without the setAutomationCookie(cookie) call
SetParsedWithoutAutomation(cookie) ==
  IF parseCookieStringThrows(documentCookieValue)
  THEN /\ uncaught' = TRUE
       /\ lastOp' = Op("set", cookie, <<>>)
       /\ UNCHANGED <<documentCookieValue, setInFlight>>
  ELSE LET merged == mergeCookies(documentCookieValue,
                                  <<Cookie(cookie[1].key, cookie[1].value)>>)
       IN  /\ EntryCount(merged) <= MaxEntries
           /\ Len(setInFlight) < MaxSetInFlight
           /\ documentCookieValue' = merged
           /\ lastOp' = Op("set", cookie, <<merged>>)
           /\ UNCHANGED <<setInFlight, uncaught>>

\* the setter past its guard: merge the cookie, push it to the automation
\* side (setAutomationCookie), return the new value
SetParsed(cookie) ==
  IF parseCookieStringThrows(documentCookieValue)
  THEN /\ uncaught' = TRUE
       /\ lastOp' = Op("set", cookie, <<>>)
       /\ UNCHANGED <<documentCookieValue, setInFlight>>
  ELSE LET merged == mergeCookies(documentCookieValue,
                                  <<Cookie(cookie[1].key, cookie[1].value)>>)
       IN  /\ EntryCount(merged) <= MaxEntries
           /\ Len(setInFlight) < MaxSetInFlight
           /\ documentCookieValue' = merged
           \* Cypress.automation('set:cookie', automationCookie).catch(...)
           /\ setInFlight' = Append(setInFlight, Cookie(cookie[1].key, cookie[1].value))
           /\ lastOp' = Op("set", cookie, <<merged>>)
           /\ UNCHANGED uncaught

\* Set without "if (!cookie) return documentCookieValue": reading cookie.key
\* of undefined throws
SetWithoutGuard(cookie) ==
  /\ patched
  /\ IF cookie = <<>>
     THEN /\ uncaught' = TRUE
          /\ lastOp' = Op("set", cookie, <<>>)
          /\ UNCHANGED <<documentCookieValue, setInFlight>>
     ELSE SetParsed(cookie)
  /\ UNCHANGED <<patched, intervalActive, unloadListener, handlers, getInFlight,
                 jar, crossOriginCookies, received, fn>>

\* set (newValue): cookie is the outcome of Cypress.Cookies.parse(newValue),
\* <<>> when the value could not be parsed
Set(cookie) ==
  /\ patched
  /\ IF cookie = <<>>
     THEN /\ lastOp' = Op("set", cookie, <<documentCookieValue>>)
          /\ UNCHANGED <<documentCookieValue, setInFlight, uncaught>>
     ELSE SetParsed(cookie)
  /\ UNCHANGED <<patched, intervalActive, unloadListener, handlers, getInFlight,
                 jar, crossOriginCookies, received, fn>>

\* the promise of Cypress.automation('set:cookie', ...) resolves
SetCookieResolve(i) ==
  /\ i \in 1..Len(setInFlight)
  /\ setInFlight' = RemoveAt(setInFlight, i)
  /\ lastOp' = Op("set:cookie:resolve", <<>>, <<>>)
  /\ UNCHANGED <<documentCookieValue, patched, intervalActive, unloadListener,
                 handlers, getInFlight, jar, crossOriginCookies, received,
                 uncaught, fn>>

\* the promise rejects: .catch(() => {}) ignores the error
SetCookieReject(i) ==
  /\ i \in 1..Len(setInFlight)
  /\ setInFlight' = RemoveAt(setInFlight, i)
  /\ lastOp' = Op("set:cookie:reject", <<>>, <<>>)
  /\ UNCHANGED <<documentCookieValue, patched, intervalActive, unloadListener,
                 handlers, getInFlight, jar, crossOriginCookies, received,
                 uncaught, fn>>

\* the interval callback starts: Cypress.automation('get:cookies', { domain })
\* is issued and the callback suspends at the await
IntervalTick ==
  /\ intervalActive
  /\ getInFlight < MaxGetInFlight
  /\ getInFlight' = getInFlight + 1
  /\ lastOp' = Op("tick", <<>>, <<>>)
  /\ UNCHANGED <<documentCookieValue, patched, intervalActive, unloadListener,
                 handlers, setInFlight, jar, crossOriginCookies, received,
                 uncaught, fn>>

\* the cookie of the write that a settling 'get:cookies' call overtakes: the
\* setter ran last, so the call was issued before it (IntervalTick would have
\* been recorded after it)
Overtaken ==
  IF lastOp.name = "set" THEN lastOp.arg ELSE <<>>

\* GetCookiesResolve answering with the jar and the writes still on their way
\* to it
GetCookiesResolveKeepsWritten ==
  /\ getInFlight > 0
  /\ documentCookieValue' = mergeCookies(stringifyCookies(jar), setInFlight)
  /\ getInFlight' = getInFlight - 1
  /\ lastOp' = Op("get:cookies:resolve", Overtaken, <<>>)
  /\ UNCHANGED <<patched, intervalActive, unloadListener, handlers, setInFlight,
                 jar, crossOriginCookies, received, uncaught, fn>>

\* GetCookiesResolve with the result dropped (the assignment of line 521 lost)
GetCookiesResolveDiscards ==
  /\ getInFlight > 0
  /\ getInFlight' = getInFlight - 1
  /\ lastOp' = Op("get:cookies:resolve", Overtaken, <<>>)
  /\ UNCHANGED <<documentCookieValue, patched, intervalActive, unloadListener,
                 handlers, setInFlight, jar, crossOriginCookies, received,
                 uncaught, fn>>

\* GetCookiesResolve merging the result as updateCookies does, instead of
\* replacing the value
GetCookiesResolveMerges ==
  /\ getInFlight > 0
  /\ documentCookieValue' = mergeCookies(documentCookieValue, jar)
  /\ getInFlight' = getInFlight - 1
  /\ lastOp' = Op("get:cookies:resolve", Overtaken, <<>>)
  /\ UNCHANGED <<patched, intervalActive, unloadListener, handlers, setInFlight,
                 jar, crossOriginCookies, received, uncaught, fn>>

\* the await resumes with the browser's cookies:
\* documentCookieValue = stringifyCookies(cookies || [])
\* The cookies delivered are the jar's content at this step; JarChange may
\* alter the jar at any step before it, so a result may lack what was written
\* to documentCookieValue after the call was issued.
GetCookiesResolve ==
  /\ getInFlight > 0
  /\ documentCookieValue' = stringifyCookies(jar)
  /\ getInFlight' = getInFlight - 1
  /\ lastOp' = Op("get:cookies:resolve", Overtaken, <<>>)
  /\ UNCHANGED <<patched, intervalActive, unloadListener, handlers, setInFlight,
                 jar, crossOriginCookies, received, uncaught, fn>>

\* GetCookiesReject with the assignment moved after the try block: a failed
\* call stores stringifyCookies([])
GetCookiesRejectResets ==
  /\ getInFlight > 0
  /\ documentCookieValue' = stringifyCookies(<<>>)
  /\ getInFlight' = getInFlight - 1
  /\ lastOp' = Op("get:cookies:reject", <<>>, <<>>)
  /\ UNCHANGED <<patched, intervalActive, unloadListener, handlers, setInFlight,
                 jar, crossOriginCookies, received, uncaught, fn>>

\* the await throws: catch (err) {} ignores the error
GetCookiesReject ==
  /\ getInFlight > 0
  /\ getInFlight' = getInFlight - 1
  /\ lastOp' = Op("get:cookies:reject", <<>>, <<>>)
  /\ UNCHANGED <<documentCookieValue, patched, intervalActive, unloadListener,
                 handlers, setInFlight, jar, crossOriginCookies, received,
                 uncaught, fn>>

\* the browser's cookie jar changes (http responses, cy.setCookie, set:cookie)
JarChange(cookies) ==
  /\ cookies # jar
  /\ jar' = cookies
  /\ UNCHANGED <<documentCookieValue, patched, intervalActive, unloadListener,
                 handlers, getInFlight, setInFlight, crossOriginCookies, received,
                 uncaught, lastOp, fn>>

\* onUnload without clearInterval(intervalId)
OnUnloadKeepsInterval ==
  /\ unloadListener
  /\ unloadListener' = FALSE
  /\ lastOp' = Op("unload", <<>>, <<>>)
  /\ UNCHANGED <<documentCookieValue, patched, intervalActive, handlers,
                 getInFlight, setInFlight, jar, crossOriginCookies, received,
                 uncaught, fn>>

\* onUnload
OnUnload ==
  /\ unloadListener
  /\ unloadListener' = FALSE
  /\ intervalActive' = FALSE
  /\ lastOp' = Op("unload", <<>>, <<>>)
  /\ UNCHANGED <<documentCookieValue, patched, handlers, getInFlight, setInFlight,
                 jar, crossOriginCookies, received, uncaught, fn>>

----------------------------------------------------------------------------
(* Event handlers *)

\* updateCookies: documentCookieValue = mergeCookies(documentCookieValue, cookies)
updateCookies(cookies) ==
  IF parseCookieStringThrows(documentCookieValue)
  THEN uncaught' = TRUE /\ UNCHANGED documentCookieValue
  ELSE /\ documentCookieValue' = mergeCookies(documentCookieValue, cookies)
       /\ EntryCount(documentCookieValue') <= MaxEntries
       /\ UNCHANGED uncaught

\* reset without its assignment
resetKeepsValue ==
  UNCHANGED documentCookieValue

\* reset: documentCookieValue = ''
reset ==
  documentCookieValue' = EmptyString

\* OnCrossOriginCookies without the Cypress.state('crossOriginCookies', cookies)
\* call
OnCrossOriginCookiesWithoutState(cookies) ==
  /\ "cross:origin:cookies" \in handlers
  /\ received < MaxPush
  /\ updateCookies(cookies)
  /\ IF uncaught'
     THEN UNCHANGED received
     ELSE received' = received + 1
  /\ lastOp' = Op("cross:origin:cookies", <<cookies>>, <<>>)
  /\ UNCHANGED <<patched, intervalActive, unloadListener, handlers, getInFlight,
                 setInFlight, jar, crossOriginCookies, fn>>

\* OnCrossOriginCookies without the updateCookies(cookies) call
OnCrossOriginCookiesWithoutUpdate(cookies) ==
  /\ "cross:origin:cookies" \in handlers
  /\ received < MaxPush
  /\ crossOriginCookies' = <<cookies>>
  /\ received' = received + 1
  /\ lastOp' = Op("cross:origin:cookies", <<cookies>>, <<>>)
  /\ UNCHANGED <<documentCookieValue, uncaught, patched, intervalActive,
                 unloadListener, handlers, getInFlight, setInFlight, jar, fn>>

\* Cypress.specBridgeCommunicator.on('cross:origin:cookies', ...)
OnCrossOriginCookies(cookies) ==
  /\ "cross:origin:cookies" \in handlers
  /\ received < MaxPush
  /\ updateCookies(cookies)
  /\ IF uncaught'
     THEN UNCHANGED <<crossOriginCookies, received>>
     ELSE /\ crossOriginCookies' = <<cookies>>
          /\ received' = received + 1
  /\ lastOp' = Op("cross:origin:cookies", <<cookies>>, <<>>)
  /\ UNCHANGED <<patched, intervalActive, unloadListener, handlers, getInFlight,
                 setInFlight, jar, fn>>

\* Cypress.on('test:before:run', ...)
OnTestBeforeRun ==
  /\ "test:before:run" \in handlers
  /\ reset
  /\ lastOp' = Op("test:before:run", <<>>, <<>>)
  /\ UNCHANGED <<patched, intervalActive, unloadListener, handlers, getInFlight,
                 setInFlight, jar, crossOriginCookies, received, uncaught, fn>>

\* Cypress.on('set:cookie', ...)
OnSetCookie(cookie) ==
  /\ "set:cookie" \in handlers
  /\ updateCookies(<<cookie>>)
  /\ lastOp' = Op("set:cookie", <<>>, <<>>)
  /\ UNCHANGED <<patched, intervalActive, unloadListener, handlers, getInFlight,
                 setInFlight, jar, crossOriginCookies, received, fn>>

\* Cypress.on('clear:cookie', ...)
OnClearCookie(name) ==
  /\ "clear:cookie" \in handlers
  /\ IF parseCookieStringThrows(documentCookieValue)
     THEN uncaught' = TRUE /\ UNCHANGED documentCookieValue
     ELSE /\ documentCookieValue' = clearCookie(documentCookieValue, name)
          /\ UNCHANGED uncaught
  /\ lastOp' = Op("clear:cookie", <<name>>, <<>>)
  /\ UNCHANGED <<patched, intervalActive, unloadListener, handlers, getInFlight,
                 setInFlight, jar, crossOriginCookies, received, fn>>

\* Cypress.on('clear:cookies', ...)
OnClearCookies ==
  /\ "clear:cookies" \in handlers
  /\ reset
  /\ lastOp' = Op("clear:cookies", <<>>, <<>>)
  /\ UNCHANGED <<patched, intervalActive, unloadListener, handlers, getInFlight,
                 setInFlight, jar, crossOriginCookies, received, uncaught, fn>>

----------------------------------------------------------------------------

Next ==
  \/ Patch
  \/ Get
  \/ \E cookie \in SetterInputs : Set(cookie)
  \/ \E i \in 1..MaxSetInFlight : SetCookieResolve(i)
  \/ \E i \in 1..MaxSetInFlight : SetCookieReject(i)
  \/ IntervalTick
  \/ GetCookiesResolve
  \/ GetCookiesReject
  \/ \E cookies \in JarContents : JarChange(cookies)
  \/ OnUnload
  \/ \E cookies \in PushedCookies : OnCrossOriginCookies(cookies)
  \/ OnTestBeforeRun
  \/ \E cookie \in SetCookieEvents : OnSetCookie(cookie)
  \/ \E name \in ClearNames : OnClearCookie(name)
  \/ OnClearCookies

Spec == Init /\ [][Next]_vars

\* The scheduling of the page: while the timer is scheduled its callback keeps
\* being run (setInterval, 250 ms), and the automation side keeps answering
\* 'get:cookies' calls successfully (a call that is in flight again and again
\* is eventually one that resolves).
SpecLive ==
  /\ Init
  /\ [][Next]_vars
  /\ WF_vars(IntervalTick)
  /\ SF_vars(GetCookiesResolve)

----------------------------------------------------------------------------
(* The pure helpers applied to drawn arguments *)

C == <<"c">>

FnLines ==
  { EmptyString,
    stringifyCookies(<<Cookie(A, V1)>>),
    stringifyCookies(<<Cookie(A, V1), Cookie(B, V2)>>),
    stringifyCookies(<<Cookie(B, V2), Cookie(A, EmptyString), Cookie(C, V1)>>),
    stringifyCookies(<<Cookie(ValueOf, V1), Cookie(A, V1)>>),
    <<" ", "a", " ", "=", " ", "1", ";", "b", "=", "2", " ">>,
    <<"a", "=", "1", "=", "2", ";", " ", "b", "=", "1">>,
    <<"a", "=", "1", ";", " ", "b">> }

FnCookies ==
  { <<>>,
    <<Cookie(A, V2)>>,
    <<Cookie(A, EmptyString)>>,
    <<Cookie(B, V1), Cookie(C, V2)>>,
    <<Cookie(C, V1)>>,
    <<Cookie(A, V2), Cookie(A, EmptyString)>>,
    <<Cookie(A, EmptyString), Cookie(A, V2)>>,
    <<Cookie(ValueOf, EmptyString)>>,
    <<Cookie(A, <<"1", "=", "2">>), Cookie(B, V1)>> }

InitPure ==
  /\ documentCookieValue = EmptyString
  /\ patched = FALSE
  /\ intervalActive = TRUE
  /\ unloadListener = TRUE
  /\ handlers = EventNames
  /\ getInFlight = 0
  /\ setInFlight = <<>>
  /\ jar = <<>>
  /\ crossOriginCookies = <<>>
  /\ received = 0
  /\ uncaught = FALSE
  /\ lastOp = Op("create", <<>>, <<>>)
  /\ \E line \in FnLines, cookies \in FnCookies :
       fn = [line |-> line, cookies |-> cookies, applied |-> "none",
             threw |-> FALSE, out |-> EmptyString, again |-> EmptyString,
             parsed |-> <<>>]

\* out = mergeCookies(line, cookies); again = mergeCookies(out, cookies)
ApplyMerge ==
  /\ fn.applied = "none"
  /\ IF parseCookieStringThrows(fn.line)
     THEN fn' = [fn EXCEPT !.applied = "mergeCookies", !.threw = TRUE]
     ELSE LET out == mergeCookies(fn.line, fn.cookies)
          IN  fn' = [fn EXCEPT !.applied = "mergeCookies", !.out = out,
                               !.again = mergeCookies(out, fn.cookies)]
  /\ UNCHANGED shimVars

\* out = stringifyCookies(cookies); parsed = parseCookieString(out)
ApplyRoundTrip ==
  /\ fn.applied = "none"
  /\ LET out == stringifyCookies(fn.cookies)
     IN  IF parseCookieStringThrows(out)
         THEN fn' = [fn EXCEPT !.applied = "roundTrip", !.out = out, !.threw = TRUE]
         ELSE fn' = [fn EXCEPT !.applied = "roundTrip", !.out = out,
                               !.parsed = parseCookieString(out)]
  /\ UNCHANGED shimVars

NextPure ==
  \/ ApplyMerge
  \/ ApplyRoundTrip

SpecPure == InitPure /\ [][NextPure]_vars

----------------------------------------------------------------------------
(* Claims *)

Names(cookies) == {cookies[i].name : i \in 1..Len(cookies)}

EndsWith(s, t) ==
  /\ Len(t) <= Len(s)
  /\ SubSeq(s, Len(s) - Len(t) + 1, Len(s)) = t

BusEvent ==
  \/ \E cookies \in PushedCookies : OnCrossOriginCookies(cookies)
  \/ \E cookie \in SetCookieEvents : OnSetCookie(cookie)
  \/ \E name \in ClearNames : OnClearCookie(name)
  \/ OnClearCookies
  \/ OnTestBeforeRun

\* C1: once the page has unloaded (teardown), a 'get:cookies' call that was in
\* flight and now resolves leaves documentCookieValue as it was.
C1_ResultDiscardedAfterTeardown ==
  [][(~intervalActive /\ GetCookiesResolve)
       => documentCookieValue' = documentCookieValue]_vars

\* C2: after teardown no bus event changes documentCookieValue or sends the
\* 'cross:origin:cookies:received' acknowledgment.
C2_NoEventAfterTeardown ==
  [][(~unloadListener /\ BusEvent)
       => UNCHANGED <<documentCookieValue, received>>]_vars

\* C3: the entries parsed from documentCookieValue have pairwise distinct names.
C3_UniqueNames ==
  LET cookies == parseCookieString(documentCookieValue)
  IN  \A i, j \in 1..Len(cookies) : i # j => cookies[i].name # cookies[j].name

\* C4: a write of (n, v) leaves, and returns, the previous entries whose name
\* is not n, in their order, followed by n=v; a read then returns that value.
AggregateAfterWrite(line, cookie) ==
  stringifyCookies(
    SelectSeq(parseCookieString(line), LAMBDA c : c.name # cookie.key)
      \o <<Cookie(cookie.key, cookie.value)>>)

C4_WriteThenReadAggregate ==
  [][\A cookie \in ToughCookies :
       Set(<<cookie>>)
         => /\ documentCookieValue' = AggregateAfterWrite(documentCookieValue, cookie)
            /\ lastOp'.ret = <<documentCookieValue'>>]_vars

\* C5: a write whose input cannot be parsed throws nothing, leaves
\* documentCookieValue as it was, returns it, and issues no 'set:cookie' call.
C5_InvalidWriteIsNoOp ==
  [][Set(<<>>)
       => /\ ~uncaught'
          /\ documentCookieValue' = documentCookieValue
          /\ lastOp'.ret = <<documentCookieValue>>
          /\ setInFlight' = setInFlight]_vars

C5_Witness ==
  /\ lastOp = Op("set", <<>>, <<documentCookieValue>>)
  /\ documentCookieValue = stringifyCookies(<<Cookie(A, V1), Cookie(B, V2)>>)
  /\ setInFlight = <<>>
  /\ ~uncaught

\* C6: a rejected 'get:cookies' or 'set:cookie' call leaves documentCookieValue
\* as it was (for 'set:cookie': with the value the write put there) and no
\* error escapes.
C6_StoreFailureLeavesValue ==
  [][(GetCookiesReject \/ \E i \in 1..Len(setInFlight) : SetCookieReject(i))
       => /\ documentCookieValue' = documentCookieValue
          /\ ~uncaught']_vars

C6_Witness ==
  /\ lastOp.name = "get:cookies:reject"
  /\ documentCookieValue = stringifyCookies(<<Cookie(A, V1), Cookie(B, V1)>>)
  /\ stringifyCookies(jar) # documentCookieValue
  /\ ~uncaught

\* C7: when a 'get:cookies' call resolves, documentCookieValue becomes exactly
\* the serialized result: no entry absent from the result survives, also not
\* one written after the call was issued.
C7_ResolveReplacesWholesale ==
  [][GetCookiesResolve
       => /\ documentCookieValue' = stringifyCookies(jar)
          /\ parseCookieString(documentCookieValue') = jar]_vars

C7_Witness ==
  /\ lastOp.name = "get:cookies:resolve"
  /\ documentCookieValue = stringifyCookies(<<Cookie(A, V1)>>)
  /\ setInFlight = <<Cookie(B, V1)>>

\* C8: each 'cross:origin:cookies' event sends exactly one acknowledgment, in
\* the step that has merged the pushed cookies into documentCookieValue (which
\* then ends with the pushed entries); no other step sends one.
C8_AckAfterMerge ==
  [][/\ \A cookies \in PushedCookies :
          OnCrossOriginCookies(cookies)
            => /\ received' = received + 1
               /\ documentCookieValue' = mergeCookies(documentCookieValue, cookies)
               /\ EndsWith(documentCookieValue', stringifyCookies(cookies))
     /\ received' # received
          => \E cookies \in PushedCookies : OnCrossOriginCookies(cookies)]_vars

C8_Witness ==
  /\ lastOp.name = "cross:origin:cookies"
  /\ received = 1
  /\ crossOriginCookies = << <<Cookie(B, V1)>> >>
  /\ documentCookieValue = stringifyCookies(<<Cookie(A, V1), Cookie(B, V1)>>)

\* C9: mergeCookies is idempotent: merging the same cookies into the merged
\* line again gives the merged line.
C9_MergeIdempotent ==
  (fn.applied = "mergeCookies" /\ ~fn.threw) => fn.again = fn.out

\* C10: mergeCookies(L, E) is the entries of L whose name is no name of E, in
\* their order, followed by E.
C10_MergeExact ==
  (fn.applied = "mergeCookies" /\ ~fn.threw)
    => fn.out = stringifyCookies(
                  SelectSeq(parseCookieString(fn.line),
                            LAMBDA c : c.name \notin Names(fn.cookies))
                    \o fn.cookies)

\* C11: for cookies with unique names and well-formed names and values (no
\* ';', no leading '=', no '=' in a name, no surrounding blanks; a value may
\* hold '=' after its first character), parsing the serialized cookies gives
\* the cookies back.
HasChar(s, ch) == \E i \in 1..Len(s) : s[i] = ch

WellFormed(cookies) ==
  \A i \in 1..Len(cookies) :
    /\ ~HasChar(cookies[i].name, ";") /\ ~HasChar(cookies[i].value, ";")
    /\ ~HasChar(cookies[i].name, "=")
    /\ cookies[i].name # <<>>
    /\ cookies[i].value = <<>> \/ Head(cookies[i].value) # "="
    /\ trim(cookies[i].name) = cookies[i].name
    /\ trim(cookies[i].value) = cookies[i].value

UniqueNames(cookies) ==
  \A i, j \in 1..Len(cookies) : i # j => cookies[i].name # cookies[j].name

C11_RoundTrip ==
  (fn.applied = "roundTrip" /\ UniqueNames(fn.cookies) /\ WellFormed(fn.cookies))
    => (~fn.threw /\ fn.parsed = fn.cookies)

\* C12: if the timer stays scheduled and from some point on there is no write,
\* push, set, clear or reset and the jar no longer changes, then (ticks firing
\* and calls resolving, by the fairness of SpecLive) documentCookieValue
\* eventually equals the serialized jar and stays equal to it.
\* a step that writes, pushes, sets, clears or resets, or changes the jar (every
\* handler records itself in lastOp; only JarChange leaves lastOp as it is)
Disturbance ==
  \/ jar' # jar
  \/ lastOp'.name \in {"cross:origin:cookies", "set:cookie", "clear:cookie",
                       "clear:cookies", "test:before:run"}
  \/ lastOp'.name = "set" /\ lastOp'.arg # <<>>

C12_EventuallyConsistent ==
  ([]intervalActive /\ <>[][~Disturbance]_vars)
    => <>[](documentCookieValue = stringifyCookies(jar))

\* a call has resolved while the timer is scheduled: the value is the
\* serialized jar, which lacks the cookie b whose write is still in flight
C12_Witness ==
  /\ lastOp.name = "get:cookies:resolve"
  /\ intervalActive
  /\ jar = <<Cookie(A, V1), Cookie(A, EmptyString)>>
  /\ documentCookieValue = stringifyCookies(jar)
  /\ setInFlight = <<Cookie(B, V1)>>

----------------------------------------------------------------------------

ValidWrite ==
  /\ jar' = jar
  /\ lastOp'.name = "set"
  /\ lastOp'.arg # <<>>

\* C14: a write of a parsed cookie issues exactly one 'set:cookie' automation
\* call, carrying the cookie's name and value; every other step issues none
\* (the calls awaiting settlement stay as they are or lose one that settled)
C14_OneSetCookiePerValidWrite ==
  [][IF ValidWrite
     THEN setInFlight' = Append(setInFlight, Cookie(lastOp'.arg[1].key,
                                                    lastOp'.arg[1].value))
     ELSE \/ setInFlight' = setInFlight
          \/ \E i \in 1..Len(setInFlight) :
               setInFlight' = RemoveAt(setInFlight, i)]_vars

\* a write of b=1 onto a=1 has issued its one call
C14_Witness ==
  /\ lastOp = Op("set", <<[key |-> B, value |-> V1]>>,
                 <<stringifyCookies(<<Cookie(A, V1), Cookie(B, V1)>>)>>)
  /\ documentCookieValue = stringifyCookies(<<Cookie(A, V1), Cookie(B, V1)>>)
  /\ setInFlight = <<Cookie(B, V1)>>

\* C15: after a 'clear:cookies' or a 'test:before:run' event the value is the
\* empty string and parses to no entries, whatever it held before
C15_ResetEmpties ==
  [][(OnClearCookies \/ OnTestBeforeRun) =>
       /\ documentCookieValue' = EmptyString
       /\ parseCookieString(documentCookieValue') = <<>>]_vars

\* a reset has emptied the value while calls of both kinds await settlement
C15_Witness ==
  /\ lastOp.name \in {"clear:cookies", "test:before:run"}
  /\ documentCookieValue = EmptyString
  /\ setInFlight = <<Cookie(B, V1)>>
  /\ getInFlight = 2

\* C16: the interval callback issues its 'get:cookies' call only when no
\* earlier call is still awaiting settlement
C16_TicksSerialized ==
  [][getInFlight' > getInFlight => getInFlight = 0]_vars

\* C17: when a 'get:cookies' call issued before a write of a parsed cookie
\* resolves after it, the value held the write's result and becomes the
\* call's result as a whole; a written name the result lacks is gone
C17_StaleResultClobbersWrite ==
  [][(jar' = jar /\ lastOp'.name = "get:cookies:resolve" /\ lastOp'.arg # <<>>) =>
       LET written == lastOp'.arg[1].key
       IN  /\ lastOp.ret = <<documentCookieValue>>
           /\ documentCookieValue' = stringifyCookies(jar)
           /\ (written \notin Names(jar) =>
                 written \notin Names(parseCookieString(documentCookieValue')))]_vars

\* a call issued before the write of b=1 has resolved after it without b
C17_Witness ==
  /\ lastOp = Op("get:cookies:resolve", <<[key |-> B, value |-> V1]>>, <<>>)
  /\ documentCookieValue = stringifyCookies(<<Cookie(A, V1)>>)
  /\ setInFlight = <<Cookie(B, V1)>>
  /\ jar = <<Cookie(A, V1)>>

\* C18: onUnload stops the interval and leaves the 'get:cookies' calls in
\* flight as they are; once the interval is stopped it stays stopped and no
\* further 'get:cookies' call is issued
C18_NoTickAfterTeardown ==
  [][/\ (jar' = jar /\ lastOp'.name = "unload") =>
          (~intervalActive' /\ getInFlight' = getInFlight)
     /\ ~intervalActive => (~intervalActive' /\ getInFlight' <= getInFlight)]_vars

\* after the unload one call in flight has failed and another is still in flight
C18_Witness ==
  /\ ~intervalActive
  /\ ~unloadListener
  /\ lastOp.name = "get:cookies:reject"
  /\ getInFlight = 1

\* C19: the getter returns documentCookieValue and changes nothing: the value,
\* the automation calls in flight, the handlers, the unload listener, the
\* interval, the acknowledgments sent and the shared state stay as they are
C19_ReadHasNoSideEffect ==
  [][(jar' = jar /\ lastOp'.name = "get") =>
       /\ lastOp'.ret = <<documentCookieValue>>
       /\ UNCHANGED <<documentCookieValue, patched, intervalActive,
                      unloadListener, handlers, getInFlight, setInFlight,
                      crossOriginCookies, received, uncaught>>]_vars

\* the getter has returned a two-entry value while a call is in flight
C19_Witness ==
  /\ lastOp = Op("get", <<>>, <<stringifyCookies(<<Cookie(A, V1), Cookie(B, V2)>>)>>)
  /\ documentCookieValue = stringifyCookies(<<Cookie(A, V1), Cookie(B, V2)>>)
  /\ getInFlight = 1
  /\ setInFlight = <<>>

\* C20: a 'cross:origin:cookies' event stores its cookies as the
\* 'crossOriginCookies' state, in place of what was stored, in the step that
\* sends the acknowledgment; no other step changes that state
C20_PushRecordsState ==
  [][IF jar' = jar /\ lastOp'.name = "cross:origin:cookies"
     THEN /\ crossOriginCookies' = lastOp'.arg
          /\ received' = received + 1
     ELSE UNCHANGED <<crossOriginCookies, received>>]_vars

\* a second event has stored its cookies in place of the first event's
C20_Witness ==
  /\ lastOp = Op("cross:origin:cookies", << <<Cookie(A, V1), Cookie(A, V1)>> >>, <<>>)
  /\ received = 2
  /\ crossOriginCookies = << <<Cookie(A, V1), Cookie(A, V1)>> >>

====
